---- MODULE Spec2Model ----
(***************************************************************************)
(* Model of src/main.py: the traversal controller parse_announcements and  *)
(* the field extractors parse_announcement relies on.                      *)
(*                                                                         *)
(* Text is a sequence of one-character strings.  An optional Python value  *)
(* is a tagged record: None, PyStr(text) or PyInt(n).  The web site is the     *)
(* environment: every fetch either raises a RequestException or returns a  *)
(* document chosen from a small set.                                       *)
(***************************************************************************)
EXTENDS Integers, Sequences, FiniteSets, TLC

\* ------------------------------------------------------------------ bounds
MaxLimit == 3      \* largest `limit` argument tried
MaxPages == 3      \* cap on page_count (the code's counter is unbounded)
MaxLinks == 3      \* most links an index page carries
MaxLen   == 4      \* longest text tried by the extraction specification

\* ------------------------------------------------------------ Python values
None   == [t |-> "None"]
PyStr(s) == [t |-> "str", v |-> s]
PyInt(n) == [t |-> "int", v |-> n]

\* Python truthiness of an optional str/int: None, "" and 0 are falsy.
Truthy(x) ==
    CASE x.t = "None" -> FALSE
      [] x.t = "str"  -> x.v # <<>>
      [] x.t = "int"  -> x.v # 0

SetMin(S) == CHOOSE m \in S : \A x \in S : m <= x
SetMax(S) == CHOOSE m \in S : \A x \in S : m >= x

\* ------------------------------------------------------------ text helpers
\* str.strip(): leading and trailing whitespace removed.
Strip(s) ==
    LET keep == {i \in 1..Len(s) : s[i] # " "}
    IN  IF keep = {} THEN <<>> ELSE SubSeq(s, SetMin(keep), SetMax(keep))

\* str.split(","): the parts between the commas, one more than the commas.
Split(s) ==
    LET commas == {i \in 1..Len(s) : s[i] = ","}
        n      == Cardinality(commas)
        at(k)  == IF k = 0 THEN 0
                  ELSE IF k = n + 1 THEN Len(s) + 1
                  ELSE CHOOSE p \in commas :
                           Cardinality({q \in commas : q <= p}) = k
    IN  [k \in 1..(n + 1) |-> SubSeq(s, at(k - 1) + 1, at(k) - 1)]

IsDigit(c) == c \in {"0", "1", "2", "3", "4", "5", "6", "7", "8", "9"}
\* \w of the regular expressions: letters and digits.
IsWord(c)  == IsDigit(c) \/ c \in {"a", "b", "s"}

DigitVal(c) ==
    CASE c = "0" -> 0 [] c = "1" -> 1 [] c = "2" -> 2 [] c = "3" -> 3
      [] c = "4" -> 4 [] c = "5" -> 5 [] c = "6" -> 6 [] c = "7" -> 7
      [] c = "8" -> 8 [] c = "9" -> 9

RECURSIVE DigitsToInt(_)
DigitsToInt(s) ==
    IF s = <<>> THEN 0
    ELSE 10 * DigitsToInt(SubSeq(s, 1, Len(s) - 1)) + DigitVal(s[Len(s)])

\* str.replace(",", "")
RemoveCommas(s) == SelectSeq(s, LAMBDA c : c # ",")

\* -------------------------------------------------------------- extractors
\* get_text_or_default(tag): the stripped text of a found tag, else None.
\* A tag is None (soup.find found nothing) or PyStr(raw text).
get_text_or_default(tag) ==
    IF tag.t = "None" THEN None ELSE PyStr(Strip(tag.v))

parse_region(full_address) ==
    IF Truthy(full_address)
    THEN LET address_parts == Split(full_address.v)
             n == Len(address_parts)
         IN  IF n >= 2
             THEN PyStr(Strip(address_parts[n - 1]) \o <<",", " ">>
                      \o Strip(address_parts[n]))
             ELSE PyStr(<<>>)
    ELSE PyStr(<<>>)

\* int(value_text): succeeds on a non-empty run of decimal digits (the only
\* integer literals the modelled alphabet can spell), else ValueError.
IntParses(s) == s # <<>> /\ \A i \in 1..Len(s) : IsDigit(s[i])

\* extract_value_by_title(soup, title).  carac describes what the document
\* holds for the title: whether the carac-title div exists and the
\* carac-value sibling (None, or PyStr of its raw text).
extract_value_by_title(carac) ==
    IF carac.title
    THEN IF carac.value.t # "None"
         THEN LET value_text == Strip(carac.value.v)
              IN  IF IntParses(value_text)
                  THEN PyInt(DigitsToInt(value_text))
                  ELSE PyStr(value_text)
         ELSE None
    ELSE None

\* \b at the gap before position i of s (1 <= i <= Len(s) + 1).
WordBoundary(s, i) ==
    LET before == i > 1 /\ IsWord(s[i - 1])
        after  == i <= Len(s) /\ IsWord(s[i])
    IN  before # after

\* s[i..e] spells \d+(?:,\d+)* : digits and commas, a digit at both ends,
\* no two commas in a row.
DigitGroups(s, i, e) ==
    /\ i <= e
    /\ IsDigit(s[i]) /\ IsDigit(s[e])
    /\ \A k \in i..e : IsDigit(s[k]) \/ s[k] = ","
    /\ \A k \in i..(e - 1) : ~(s[k] = "," /\ s[k + 1] = ",")

\* re.search(r'\b\d+(?:,\d+)*\b', s): the leftmost start, and from it the
\* longest end the greedy quantifiers reach; <<>> when nothing matches.
FloorAreaMatch(s) ==
    LET IsMatch(i, e) == /\ DigitGroups(s, i, e)
                         /\ WordBoundary(s, i)
                         /\ WordBoundary(s, e + 1)
        starts == {i \in 1..Len(s) : \E e \in i..Len(s) : IsMatch(i, e)}
    IN  IF starts = {} THEN <<>>
        ELSE LET i == SetMin(starts)
                 e == SetMax({x \in i..Len(s) : IsMatch(i, x)})
             IN  SubSeq(s, i, e)

\* normalize_floor_area(floor_area).  re.search raises TypeError when handed
\* an int, so the result carries the exception that escapes, if any.
normalize_floor_area(floor_area) ==
    IF Truthy(floor_area)
    THEN IF floor_area.t = "int"
         THEN [exc |-> "TypeError", val |-> None]
         ELSE LET value_match == FloorAreaMatch(floor_area.v)
              IN  IF value_match # <<>>
                  THEN [exc |-> "none",
                        val |-> PyInt(DigitsToInt(RemoveCommas(value_match)))]
                  ELSE [exc |-> "none", val |-> None]
    ELSE [exc |-> "none", val |-> None]

\* json.loads of the array literal captured by the MosaicPhotoUrls pattern.
\* The literal is the token sequence between "[" and "]": a token is a
\* double-quoted string ("u1", "u2"), a single-quoted one ("'u1'", which
\* JavaScript accepts and JSON does not) or the separator ",".
JsonStrings == {"u1", "u2"}
JsonArrayWellFormed(lit) ==
    \/ lit = <<>>
    \/ /\ Len(lit) % 2 = 1
       /\ \A i \in 1..Len(lit) :
              IF i % 2 = 1 THEN lit[i] \in JsonStrings ELSE lit[i] = ","

\* extract_image_urls(soup).  script is None (no script tag matches the
\* pattern) or PyStr(literal tokens).
extract_image_urls(script) ==
    IF script.t # "None"
    THEN IF JsonArrayWellFormed(script.v)
         THEN [exc |-> "none",
               val |-> SelectSeq(script.v, LAMBDA x : x # ",")]
         ELSE [exc |-> "JSONDecodeError", val |-> <<>>]
    ELSE [exc |-> "none", val |-> <<>>]

\* ------------------------------------------------------------- documents
\* A detail document, reduced to what the modelled fields read:
\*   address : the h2.pt-1 tag (None or PyStr(raw text))
\*   script  : the MosaicPhotoUrls script (None or PyStr(literal tokens))
\*   price   : the meta itemprop=price tag: None, PyStr(content attribute)
\*             or NoContent (the tag is there without a content attribute)
\*   floor   : the "Floor Area" characteristic
\* The other twelve fields are get_text_or_default / extract_number_from_tag
\* lookups that read nothing else and cannot raise; they are left out.
NoContent == [t |-> "NoAttr"]
NoCarac   == [title |-> FALSE, value |-> None]
Carac(raw) == [title |-> TRUE, value |-> PyStr(raw)]

\* parse_announcement(session, announcement_url) once fetch_page returned
\* document d.  Keyword arguments are evaluated in source order, so the
\* first extractor that raises decides the exception that escapes.
parse_announcement(announcement_url, d) ==
    LET images == extract_image_urls(d.script)
        floor  == normalize_floor_area(extract_value_by_title(d.floor))
        exc    == IF images.exc # "none" THEN images.exc
                  ELSE IF d.price.t = "NoAttr" THEN "KeyError"
                  ELSE floor.exc
    IN  [exc |-> exc,
         val |-> [link       |-> announcement_url,
                  address    |-> get_text_or_default(d.address),
                  region     |-> parse_region(get_text_or_default(d.address)),
                  images     |-> images.val,
                  price      |-> d.price,
                  floor_area |-> floor.val]]

\* ------------------------------------------------------------------ site
\* href attributes of listing links, and the origin they are resolved on.
Hrefs  == {<<"/", "a">>, <<"/", "b">>}
prefix == <<"o">>

RECURSIVE SeqsUpTo(_, _)
SeqsUpTo(S, n) ==
    IF n = 0 THEN {<<>>}
    ELSE LET shorter == SeqsUpTo(S, n - 1)
         IN  shorter \cup {Append(q, x) : q \in shorter, x \in S}

\* What soup.select can return for an index page: the hrefs in document
\* order, duplicates included.
LinkLists == SeqsUpTo(Hrefs, MaxLinks)

DocFull ==
    [address |-> PyStr(<<"a", ",", " ", "b", ",", "s">>),
     script  |-> PyStr(<<"u1", ",", "u2">>),
     price   |-> PyStr(<<"1", "0">>),
     floor   |-> Carac(<<"1", ",", "0", " ", "s">>)]
\* A document with none of the modelled markup.
DocBare ==
    [address |-> None, script |-> None, price |-> None, floor |-> NoCarac]
DocBadPhotos ==
    [address |-> PyStr(<<"a">>),
     script  |-> PyStr(<<"u1", ",">>),
     price   |-> None,
     floor   |-> NoCarac]
\* Detail documents the site serves in the traversal specification: a
\* complete one and one whose photo array is not JSON (a trailing comma).
\* The extraction specification covers the other markup.
Docs == {DocFull, DocBadPhotos}

\* ------------------------------------------------------------ controller
VARIABLES
    limit,                  \* the argument (total_announcements is its copy)
    announcements,          \* the result collection
    page_count,
    parsed_announcements,
    links,                  \* the current index page's links
    idx,                    \* links of the current page the for loop took
    pc,                     \* position in parse_announcements
    caught,                 \* the except branch ran
    exc,                    \* exception that escaped parse_announcements
    snapshot,               \* history: the collection when the except ran
    trace,                  \* history: fetches and sleeps, in order
    doc,                    \* extraction specification: the document
    extracted               \* extraction specification: the outcome

vars == <<limit, announcements, page_count, parsed_announcements, links, idx,
          pc, caught, exc, snapshot, trace, doc, extracted>>

ctl  == <<limit, announcements, page_count, parsed_announcements, links, idx,
          caught, exc, snapshot, trace>>

NoOutcome == [exc |-> "unset", val |-> None]

Event(op, ok, ls, url) ==
    [op |-> op, ok |-> ok, page |-> page_count, pos |-> idx,
     links |-> ls, url |-> url, n |-> Len(announcements)]

Init ==
    /\ limit \in (0 - 1)..MaxLimit
    /\ announcements = <<>>
    /\ page_count = 0
    /\ parsed_announcements = 0
    /\ links = <<>>
    /\ idx = 0
    /\ pc = "while"
    /\ caught = FALSE
    /\ exc = "none"
    /\ snapshot = <<>>
    /\ trace = <<>>
    /\ doc = DocBare
    /\ extracted = NoOutcome

\* Mutant: the loop runs once more at the target.
WhileCondition_OffByOne == Len(announcements) <= limit
\* line 152: while len(announcements) < total_announcements
WhileCondition == Len(announcements) < limit
\* Mutant: the break comes one record late.
LimitReached_OffByOne == Len(announcements) > limit
\* line 166: if len(announcements) >= limit: break
LimitReached == Len(announcements) >= limit
\* Mutant: a page number is skipped.
NextPage_Skip(p) == p + 2
\* line 153: page_count += 1
NextPage(p) == p + 1
\* line 169: announcement_url = prefix + link['href']
AnnouncementUrl(href) == prefix \o href
\* Mutant: the record is appended twice.
AppendAnnouncement_Twice(list, announcement) ==
    Append(Append(list, announcement), announcement)
\* line 171: announcements.append(announcement)
AppendAnnouncement(list, announcement) == Append(list, announcement)
\* Mutant: the delay is left out.
AfterLinks_NoDelay == "while"
\* line 176: the statement that follows the for loop
AfterLinks == "sleep"

\* Mutant: the handler drops what was collected.
HandleRequestException_Discard ==
    /\ caught' = TRUE
    /\ snapshot' = announcements
    /\ pc' = "return"
    /\ announcements' = <<>>
    /\ UNCHANGED parsed_announcements

\* lines 178-180: except RequestException: print, break (then return).
HandleRequestException ==
    /\ caught' = TRUE
    /\ snapshot' = announcements
    /\ pc' = "return"
    /\ UNCHANGED <<announcements, parsed_announcements>>

\* lines 152-156
LoopEnter ==
    /\ pc = "while"
    /\ WhileCondition
    /\ page_count < MaxPages
    /\ page_count' = NextPage(page_count)
    /\ pc' = "fetch_index"
    /\ UNCHANGED <<limit, announcements, parsed_announcements, links, idx,
                   caught, exc, snapshot, trace, doc, extracted>>

\* lines 152, 182
LoopExit ==
    /\ pc = "while"
    /\ ~WhileCondition
    /\ pc' = "return"
    /\ UNCHANGED <<ctl, doc, extracted>>

\* lines 159-163: the index page is fetched and its links selected
FetchIndexOk ==
    /\ pc = "fetch_index"
    /\ \E ls \in LinkLists :
          /\ links' = ls
          /\ trace' = Append(trace, Event("index", TRUE, ls, <<>>))
    /\ idx' = 0
    /\ pc' = "for"
    /\ UNCHANGED <<limit, announcements, page_count, parsed_announcements,
                   caught, exc, snapshot, doc, extracted>>

\* lines 159, 40-43, 178-180: the index fetch raises a RequestException
FetchIndexFail ==
    /\ pc = "fetch_index"
    /\ trace' = Append(trace, Event("index", FALSE, <<>>, <<>>))
    /\ HandleRequestException
    /\ UNCHANGED <<limit, page_count, links, idx, exc, doc, extracted>>

\* lines 165-169: the for loop takes the next link
ForNext ==
    /\ pc = "for"
    /\ idx < Len(links)
    /\ ~LimitReached
    /\ idx' = idx + 1
    /\ pc' = "detail"
    /\ UNCHANGED <<limit, announcements, page_count, parsed_announcements,
                   links, caught, exc, snapshot, trace, doc, extracted>>

\* lines 166-167: break
ForBreak ==
    /\ pc = "for"
    /\ idx < Len(links)
    /\ LimitReached
    /\ pc' = AfterLinks
    /\ UNCHANGED <<ctl, doc, extracted>>

\* line 165: the links are exhausted
ForEnd ==
    /\ pc = "for"
    /\ idx = Len(links)
    /\ pc' = AfterLinks
    /\ UNCHANGED <<ctl, doc, extracted>>

\* lines 170-173, 46-71: the detail page is fetched; its record is appended,
\* or an exception of the extraction escapes parse_announcements.
DetailOk ==
    /\ pc = "detail"
    /\ \E d \in Docs :
          LET announcement_url == AnnouncementUrl(links[idx])
              r == parse_announcement(announcement_url, d)
          IN  /\ trace' = Append(trace, Event("detail", TRUE, <<>>,
                                              announcement_url))
              /\ IF r.exc = "none"
                 THEN /\ announcements' =
                             AppendAnnouncement(announcements, r.val)
                      /\ parsed_announcements' = parsed_announcements + 1
                      /\ pc' = "for"
                      /\ exc' = exc
                 ELSE /\ exc' = r.exc
                      /\ pc' = "raised"
                      /\ UNCHANGED <<announcements, parsed_announcements>>
    /\ UNCHANGED <<limit, page_count, links, idx, caught, snapshot, doc,
                   extracted>>

\* lines 170, 47, 40-43, 178-180: the detail fetch raises a RequestException
DetailFail ==
    /\ pc = "detail"
    /\ trace' = Append(trace, Event("detail", FALSE, <<>>,
                                    AnnouncementUrl(links[idx])))
    /\ HandleRequestException
    /\ UNCHANGED <<limit, page_count, links, idx, exc, doc, extracted>>

\* line 176: time.sleep(1)
Sleep ==
    /\ pc = "sleep"
    /\ trace' = Append(trace, Event("sleep", TRUE, <<>>, <<>>))
    /\ pc' = "while"
    /\ UNCHANGED <<limit, announcements, page_count, parsed_announcements,
                   links, idx, caught, exc, snapshot, doc, extracted>>

Next ==
    \/ LoopEnter
    \/ LoopExit
    \/ FetchIndexOk
    \/ FetchIndexFail
    \/ ForNext
    \/ ForBreak
    \/ ForEnd
    \/ DetailOk
    \/ DetailFail
    \/ Sleep

Spec == Init /\ [][Next]_vars

\* ------------------------------------------- extraction specification
\* One detail document is extracted: the field extractors on a wide range
\* of markup, one field varied at a time.
AddressTexts == SeqsUpTo({"a", " ", ","}, MaxLen)
FloorTexts   == SeqsUpTo({"1", "0", ",", "s", " "}, MaxLen)
ScriptTexts  == SeqsUpTo({"u1", "u2", "'u1'", ","}, 3)

ExtractDocs ==
    {[DocBare EXCEPT !.address = PyStr(a)] : a \in AddressTexts}
    \cup {[DocBare EXCEPT !.floor = Carac(f)] : f \in FloorTexts}
    \cup {[DocBare EXCEPT !.floor = [title |-> TRUE, value |-> None]]}
    \cup {[DocBare EXCEPT !.script = PyStr(x)] : x \in ScriptTexts}
    \cup {[DocBare EXCEPT !.price = q] : q \in {NoContent, PyStr(<<"1">>)}}
    \cup {DocBare}

InitExtract ==
    /\ limit = 1
    /\ announcements = <<>>
    /\ page_count = 1
    /\ parsed_announcements = 0
    /\ links \in {<<h>> : h \in Hrefs}
    /\ idx = 1
    /\ pc = "extract"
    /\ caught = FALSE
    /\ exc = "none"
    /\ snapshot = <<>>
    /\ trace = <<>>
    /\ doc \in ExtractDocs
    /\ extracted = NoOutcome

\* lines 46-71: parse_announcement on the fetched document
ExtractStep ==
    /\ pc = "extract"
    /\ extracted' = parse_announcement(AnnouncementUrl(links[idx]), doc)
    /\ pc' = "extracted"
    /\ UNCHANGED <<ctl, doc>>

NextExtract == ExtractStep

SpecExtract == InitExtract /\ [][NextExtract]_vars

\* ---------------------------------------------------------------- claims
Target == IF limit > 0 THEN limit ELSE 0

IsFetch(i)  == trace[i].op \in {"index", "detail"}
IsIndex(i)  == trace[i].op = "index"
IsDetail(i) == trace[i].op = "detail"
IsSleep(i)  == trace[i].op = "sleep"

\* A detail visit that ran to its end: the page was fetched and its record
\* extracted (an extraction that raises is the last event of its run).
Completed(i) ==
    /\ IsDetail(i)
    /\ trace[i].ok
    /\ ~(i = Len(trace) /\ pc = "raised")

\* The index fetch whose page a later event belongs to.
IndexBefore(j) == SetMax({q \in 1..j : IsIndex(q)})

C2_StopsAtTarget ==
    \A j \in DOMAIN trace :
        (Completed(j) /\ trace[j].n + 1 = limit) =>
            /\ \A m \in (j + 1)..Len(trace) : IsSleep(m)
            /\ page_count = trace[j].page
            /\ Cardinality({m \in DOMAIN trace :
                               IsDetail(m) /\ trace[m].page = trace[j].page})
                   = limit - trace[IndexBefore(j)].n

\* 3 links, target 2: 2 detail fetches, 1 index fetch.
C2_Witness ==
    /\ pc = "return" /\ ~caught /\ limit = 2
    /\ Len(trace) = 4
    /\ IsIndex(1) /\ Len(trace[1].links) = 3
    /\ IsDetail(2) /\ IsDetail(3) /\ IsSleep(4)

\* C3: when a fetch raises a transport error with k records collected, the
\* run is over (the failed fetch is the last event), nothing escapes, and
\* the collection returned is the k records held at that moment.
C3_TransportErrorKeepsRecords ==
    /\ \A i \in DOMAIN trace : ~trace[i].ok => (i = Len(trace) /\ caught)
    /\ caught =>
          /\ pc = "return"
          /\ exc = "none"
          /\ trace # <<>>
          /\ IsFetch(Len(trace)) /\ ~trace[Len(trace)].ok
          /\ Len(announcements) = trace[Len(trace)].n
          /\ announcements = snapshot

\* The second index fetch fails after records were collected.
C3_Witness ==
    /\ caught /\ pc = "return"
    /\ Len(announcements) = 2
    /\ IsIndex(Len(trace)) /\ trace[Len(trace)].page = 2

\* C4: an index page without links ends the run: no index page is fetched
\* after it.
C4_EmptyPageEndsRun ==
    \A i \in DOMAIN trace :
        (IsIndex(i) /\ trace[i].ok /\ trace[i].links = <<>>) =>
            \A m \in (i + 1)..Len(trace) : ~IsIndex(m)

\* C5: no extraction error escapes: a fetched detail page always yields its
\* record and the traversal goes on.
C5_ExtractionNeverRaises ==
    /\ pc # "raised"
    /\ exc = "none"

ClaimedRegion(address) ==
    IF address.t = "None" THEN None
    ELSE LET parts == Split(address.v)
             n == Len(parts)
         IN  IF n >= 2
             THEN PyStr(Strip(parts[n - 1]) \o <<",", " ">> \o Strip(parts[n]))
             ELSE PyStr(<<>>)

C7_RegionDerivation ==
    (pc = "extracted" /\ extracted.exc = "none") =>
        extracted.val.region = ClaimedRegion(extracted.val.address)

\* C8: floor_area is the integer of the first digit run (grouping commas
\* stripped) of the "Floor Area" value, None without the label or without
\* digits, and computing it never raises.
ClaimedFloorArea(carac) ==
    IF ~carac.title \/ carac.value.t = "None" THEN None
    ELSE LET s == Strip(carac.value.v)
             digits == {i \in 1..Len(s) : IsDigit(s[i])}
         IN  IF digits = {} THEN None
             ELSE LET i == SetMin(digits)
                      e == SetMax({x \in i..Len(s) : DigitGroups(s, i, x)})
                  IN  PyInt(DigitsToInt(RemoveCommas(SubSeq(s, i, e))))

C8_FloorArea ==
    (pc = "extracted" /\ extracted.exc \in {"none", "TypeError"}) =>
        /\ extracted.exc = "none"
        /\ extracted.val.floor_area = ClaimedFloorArea(doc.floor)

\* C9, the order of the fetches: index pages are requested as 1, 2, 3, ...;
\* a detail fetch belongs to the latest index page and takes its links in
\* document order; the records stand in the order of their detail fetches.
FetchesOrdered ==
    /\ \A i \in DOMAIN trace :
          IsIndex(i) =>
              trace[i].page = Cardinality({q \in 1..i : IsIndex(q)})
    /\ \A j \in DOMAIN trace :
          IsDetail(j) =>
              /\ \E q \in 1..j : IsIndex(q)
              /\ trace[j].page = trace[IndexBefore(j)].page
              /\ trace[j].pos =
                     Cardinality({m \in IndexBefore(j)..j : IsDetail(m)})
              /\ trace[j].pos <= Len(trace[IndexBefore(j)].links)
              /\ trace[j].url =
                     <<"o">> \o trace[IndexBefore(j)].links[trace[j].pos]
    /\ \A j1, j2 \in DOMAIN trace :
          (Completed(j1) /\ Completed(j2) /\ j1 < j2) =>
              /\ trace[j1].n < trace[j2].n
              /\ trace[j2].n < Len(announcements)
              /\ announcements[trace[j1].n + 1].link = trace[j1].url
              /\ announcements[trace[j2].n + 1].link = trace[j2].url

\* C9, append-only: a step leaves the collection alone or adds one record
\* at its end.
AppendOnly ==
    \/ announcements' = announcements
    \/ /\ Len(announcements') = Len(announcements) + 1
       /\ SubSeq(announcements', 1, Len(announcements)) = announcements

\* C9: fetches are sequential and ordered, and the collection is
\* append-only, in the order of the detail fetches.
C9_SequentialAppendOnly == []FetchesOrdered /\ [][AppendOnly]_vars

\* One record from page 1, then one from page 2.
C9_Witness ==
    /\ page_count = 2 /\ pc = "for"
    /\ Len(announcements) = 2
    /\ \E j \in DOMAIN trace : Completed(j) /\ trace[j].page = 1
    /\ \E j \in DOMAIN trace : Completed(j) /\ trace[j].page = 2
    /\ announcements[1].link # announcements[2].link

\* C10: an index fetch other than the first comes right after a delay, and
\* a delay is followed by nothing but the next index fetch: one delay
\* between two consecutive index fetches, after the earlier page's last
\* detail fetch, none between the detail fetches of a page.
C10_OneDelayPerIndexPage ==
    /\ \A j \in DOMAIN trace : (IsIndex(j) /\ j > 1) => IsSleep(j - 1)
    /\ \A m \in DOMAIN trace : (IsSleep(m) /\ m < Len(trace)) => IsIndex(m + 1)
    /\ \A i, j \in DOMAIN trace :
          (IsIndex(i) /\ IsIndex(j) /\ i < j
             /\ \A q \in (i + 1)..(j - 1) : ~IsIndex(q)) =>
              {m \in (i + 1)..(j - 1) : IsSleep(m)} = {j - 1}

\* Two detail fetches on page 1, one delay, then page 2.
C10_Witness ==
    /\ Len(trace) >= 5
    /\ IsIndex(1) /\ IsDetail(2) /\ IsDetail(3) /\ IsSleep(4) /\ IsIndex(5)

====
